---- MODULE Spec2Model ----
(***************************************************************************)
(* Video game sales dashboard (src/app.py): the statistics computed by     *)
(* each page handler over the loaded table, one script run per user        *)
(* interaction.                                                            *)
(*                                                                         *)
(* Numbers.  Cells of the table are naturals (millions of units) or NULL   *)
(* (a missing cell, NaN in the frame).  Every computed statistic is an     *)
(* exact rational [nan, num, den] with den > 0, or NaN; comparisons with   *)
(* NaN are false and arithmetic on NaN gives NaN, as for IEEE floats.      *)
(* Rounding is modelled where the sign of a result depends on it, in the    *)
(* differences and their sum of sales_over_time_chart: there a result is   *)
(* rounded to MantissaBits significant bits, ties to even, as float64      *)
(* rounds to 53.  Elsewhere the evaluation is exact.                        *)
(***************************************************************************)
EXTENDS Integers, Sequences, FiniteSets, TLC

VARIABLES data, view

vars == <<data, view>>

(* ------------------------------ bounds -------------------------------- *)

\* Largest number of rows of the loaded table.
MaxRows == 3

\* Largest sales figure of a cell.
MaxVal == 2

\* The coefficients classified on their own are k / CoefficientSteps for
\* k in -CoefficientSteps .. CoefficientSteps.
CoefficientSteps == 100

\* Significant bits of a float in the rounded operations.
MantissaBits == 2

\* How far the sales figures of the tables that exercise rounding reach
\* beyond 2 ^ MantissaBits, the last figure below which every integer is a
\* float.
MaxExcess == 2

\* Largest number of rows, and largest year, of the tables whose Year column
\* varies.
MaxYearRows == 2

MaxYear == 2

(* ------------------------- the loaded table --------------------------- *)

\* A missing cell.
NULL == 0 - 1

Regions == {"Global Sales", "NA Sales", "EU Sales", "JP Sales", "Other Sales"}

region_mapping ==
    [r \in Regions |->
        CASE r = "Global Sales" -> "Global_Sales"
          [] r = "NA Sales"     -> "NA_Sales"
          [] r = "EU Sales"     -> "EU_Sales"
          [] r = "JP Sales"     -> "JP_Sales"
          [] r = "Other Sales"  -> "Other_Sales"]

\* list(region_mapping.keys()): the options of the region select boxes, in
\* the order of the mapping.
RegionList == <<"Global Sales", "NA Sales", "EU Sales", "JP Sales", "Other Sales">>

Pages == {"Introduction & Statistics", "Sales by Platform", "Sales by Genre",
          "Sales Comparison", "Sales Over Time", "Histogram", "Box Plot",
          "Conclusion"}

Cells == {NULL} \cup (0 .. MaxVal)

Columns(n) == [1 .. n -> Cells]

Reverse(s) == [i \in 1 .. Len(s) |-> s[Len(s) + 1 - i]]

AscYears(n) == [i \in 1 .. n |-> i]

\* The frame read from the CSV: whether it has a Year column, the Year
\* column, and the five sales columns.
Table(hasYear, year, cx, cy) ==
    [hasYear      |-> hasYear,
     Year         |-> year,
     Global_Sales |-> cx,
     NA_Sales     |-> cy,
     EU_Sales     |-> cx,
     JP_Sales     |-> cy,
     Other_Sales  |-> cx]

\* The tables the model loads: up to MaxRows rows, cells up to MaxVal or
\* missing, the sales columns carrying one sequence or its reversal.
Tables ==
    UNION { { Table(TRUE, AscYears(n), c, Reverse(c)) : c \in Columns(n) }
            : n \in 0 .. MaxRows }

\* data[column] of the frame.
Col(d, name) ==
    CASE name = "Global_Sales" -> d.Global_Sales
      [] name = "NA_Sales"     -> d.NA_Sales
      [] name = "EU_Sales"     -> d.EU_Sales
      [] name = "JP_Sales"     -> d.JP_Sales
      [] name = "Other_Sales"  -> d.Other_Sales
      [] name = "Year"         -> d.Year

(* --------------------------- float values ----------------------------- *)

RECURSIVE GCD(_, _)
GCD(a, b) == IF b = 0 THEN a ELSE GCD(b, a % b)

Abs(x) == IF x < 0 THEN 0 - x ELSE x

NaN == [nan |-> TRUE, num |-> 0, den |-> 1]

\* The rational n/d (d > 0) in lowest terms.
Rat(n, d) ==
    LET g == GCD(Abs(n), d)
    IN  [nan |-> FALSE, num |-> n \div g, den |-> d \div g]

FSub(a, b) ==
    IF a.nan \/ b.nan THEN NaN
    ELSE Rat(a.num * b.den - b.num * a.den, a.den * b.den)

FAdd(a, b) ==
    IF a.nan \/ b.nan THEN NaN
    ELSE Rat(a.num * b.den + b.num * a.den, a.den * b.den)

FMul(a, b) ==
    IF a.nan \/ b.nan THEN NaN
    ELSE Rat(a.num * b.num, a.den * b.den)

FLT(a, b) == ~a.nan /\ ~b.nan /\ a.num * b.den < b.num * a.den

FGT(a, b) == FLT(b, a)

FLE(a, b) == ~a.nan /\ ~b.nan /\ a.num * b.den <= b.num * a.den

FEQ(a, b) == ~a.nan /\ ~b.nan /\ a.num * b.den = b.num * a.den

(* --------------------------- series methods --------------------------- *)

isnull(v) == v = NULL

HasNull(s) == \E i \in 1 .. Len(s) : isnull(s[i])

dropna(s) == SelectSeq(s, LAMBDA v : ~isnull(v))

RECURSIVE Sum(_)
Sum(s) == IF s = <<>> THEN 0 ELSE Head(s) + Sum(Tail(s))

RECURSIVE SumSq(_)
SumSq(s) == IF s = <<>> THEN 0 ELSE Head(s) * Head(s) + SumSq(Tail(s))

RECURSIVE Insert(_, _)
Insert(v, s) ==
    IF s = <<>> THEN <<v>>
    ELSE IF v <= Head(s) THEN <<v>> \o s
    ELSE <<Head(s)>> \o Insert(v, Tail(s))

RECURSIVE Sort(_)
Sort(s) == IF s = <<>> THEN <<>> ELSE Insert(Head(s), Sort(Tail(s)))

Count(s, v) == Cardinality({i \in 1 .. Len(s) : s[i] = v})

Range(s) == {s[i] : i \in 1 .. Len(s)}

SetMin(S) == CHOOSE v \in S : \A w \in S : v <= w

SetMax(S) == CHOOSE v \in S : \A w \in S : v >= w

\* Series.mean(): missing cells skipped; NaN when nothing is left.
Mean(s) ==
    LET x == dropna(s)
    IN  IF x = <<>> THEN NaN ELSE Rat(Sum(x), Len(x))

\* Series.median(): missing cells skipped; the middle value, or the mean of
\* the two middle values.
Median(s) ==
    LET x == Sort(dropna(s))
        n == Len(x)
    IN  IF n = 0 THEN NaN
        ELSE IF n % 2 = 1 THEN Rat(x[(n + 1) \div 2], 1)
        ELSE Rat(x[n \div 2] + x[n \div 2 + 1], 2)

RECURSIVE SortedSeq(_)
SortedSeq(S) ==
    IF S = {} THEN <<>> ELSE <<SetMin(S)>> \o SortedSeq(S \ {SetMin(S)})

\* Mode with the most frequent values sorted descending.
ModeLargestFirst(s) ==
    LET x == dropna(s)
    IN  Reverse(SortedSeq({v \in Range(x) : \A w \in Range(x) : Count(x, v) >= Count(x, w)}))

\* Series.mode().values: the most frequent values, missing cells skipped,
\* each once, sorted ascending; empty when the series has no value.
Mode(s) ==
    LET x == dropna(s)
    IN  SortedSeq({v \in Range(x) : \A w \in Range(x) : Count(x, v) >= Count(x, w)})

\* Series.var(): sample variance (n - 1 denominator), missing cells
\* skipped; NaN below two values.
Var(s) ==
    LET x == dropna(s)
        n == Len(x)
    IN  IF n < 2 THEN NaN
        ELSE Rat(n * SumSq(x) - Sum(x) * Sum(x), n * (n - 1))

\* Series.min() and Series.max(): missing cells skipped.
Min(s) == IF dropna(s) = <<>> THEN NaN ELSE Rat(SetMin(Range(dropna(s))), 1)

Max(s) == IF dropna(s) = <<>> THEN NaN ELSE Rat(SetMax(Range(dropna(s))), 1)

RECURSIVE SumCube(_, _, _)
SumCube(s, n, total) ==
    IF s = <<>> THEN 0
    ELSE (n * Head(s) - total) * (n * Head(s) - total) * (n * Head(s) - total)
         + SumCube(Tail(s), n, total)

\* Series.skew(): bias-corrected skewness, missing cells skipped; NaN below
\* three values, 0 for a constant series.  The value kept is n^3 times the
\* third central moment sum, which has the sign of the skewness (the
\* remaining factor sqrt(n(n-1)) / ((n-2) m2^1.5) is positive).
Skew(s) ==
    LET x == dropna(s)
        n == Len(x)
    IN  IF n < 3 THEN NaN
        ELSE IF n * SumSq(x) - Sum(x) * Sum(x) = 0 THEN Rat(0, 1)
        ELSE Rat(SumCube(x, n, Sum(x)), 1)

\* Interpolate without interpolation: the order statistic below the
\* virtual index.
InterpolateLower(x, q) == Rat(x[((Len(x) - 1) * q) \div 100 + 1], 1)

\* Interpolate with the two weights exchanged.
InterpolateSwapped(x, q) ==
    LET n  == Len(x)
        k  == (n - 1) * q
        i  == k \div 100
        r  == k % 100
        lo == x[i + 1]
        hi == IF r = 0 THEN lo ELSE x[i + 2]
    IN  Rat(lo * r + hi * (100 - r), 100)

\* Linear interpolation between the order statistics around the virtual
\* index (n - 1) * q / 100.
Interpolate(x, q) ==
    LET n  == Len(x)
        k  == (n - 1) * q
        i  == k \div 100
        r  == k % 100
        lo == x[i + 1]
        hi == IF r = 0 THEN lo ELSE x[i + 2]
    IN  Rat(lo * (100 - r) + hi * r, 100)

\* np.percentile(a, q): NaN as soon as a holds a NaN (and on an empty
\* array, which show_metrics never passes: it has failed before).
Percentile(s, q) ==
    IF HasNull(s) \/ s = <<>> THEN NaN ELSE Interpolate(Sort(s), q)

\* Series.quantile(q / 100): missing cells skipped, NaN on an empty series.
Quantile(s, q) ==
    IF dropna(s) = <<>> THEN NaN ELSE Interpolate(Sort(dropna(s)), q)

(* ------------------- show_metrics (src/app.py 46-125) ------------------ *)

\* A handler that raised: streamlit shows the exception in place of the page.
Raised(page, region, fed, error) ==
    [page |-> page, region |-> region, error |-> error, sales_data |-> fed]

\* The boolean mask (s < lower) | (s > upper) applied to s.
Outside(s, lower, upper) ==
    SelectSeq(s, LAMBDA v : ~isnull(v) /\ (FLT(Rat(v, 1), lower) \/ FGT(Rat(v, 1), upper)))

\* StdAbove1 with 'std_sales >= 1'.
StdAtLeast1(var) == FLE(Rat(1, 1), var)

\* 'std_sales > 1'; std_sales is the square root of var_sales, and the
\* square root is increasing with sqrt(1) = 1.
StdAbove1(var) == FGT(var, Rat(1, 1))

SpreadInsight(var) == IF StdAbove1(var) THEN "Wide" ELSE "Consistent"

SkewInsight(skewness) ==
    IF FGT(skewness, Rat(0, 1)) THEN "positively skewed"
    ELSE IF FLT(skewness, Rat(0, 1)) THEN "negatively skewed"
    ELSE "symmetrically distributed"

OutlierInsight(outliers) == IF outliers # <<>> THEN "Present" ELSE "None"

show_metrics(d, selected_region) ==
    LET sales_data  == Col(d, region_mapping[selected_region])
        Q1          == Percentile(sales_data, 25)
        Q3          == Percentile(sales_data, 75)
        IQR         == FSub(Q3, Q1)
        lower_bound == FSub(Q1, FMul(Rat(3, 2), IQR))
        upper_bound == FAdd(Q3, FMul(Rat(3, 2), IQR))
        outliers    == Outside(sales_data, lower_bound, upper_bound)
    IN  IF Mode(sales_data) = <<>>
        THEN Raised("Introduction & Statistics", selected_region, sales_data,
                    "IndexError")
        ELSE [page         |-> "Introduction & Statistics",
              region       |-> selected_region,
              error        |-> "none",
              sales_data   |-> sales_data,
              mean_sales   |-> Mean(sales_data),
              median_sales |-> Median(sales_data),
              mode_sales   |-> Mode(sales_data)[1],
              var_sales    |-> Var(sales_data),
              min_sales    |-> Min(sales_data),
              max_sales    |-> Max(sales_data),
              range_sales  |-> FSub(Max(sales_data), Min(sales_data)),
              percentiles  |-> <<Percentile(sales_data, 25),
                                 Percentile(sales_data, 50),
                                 Percentile(sales_data, 75)>>,
              skewness     |-> Skew(sales_data),
              IQR          |-> IQR,
              lower_bound  |-> lower_bound,
              upper_bound  |-> upper_bound,
              outliers     |-> outliers,
              spread       |-> SpreadInsight(Var(sales_data)),
              skew         |-> SkewInsight(Skew(sales_data)),
              outlier_note |-> OutlierInsight(outliers)]

\* A select box of the page that is drawn: on the run that opens the page
\* it holds its first option, on a later run of the same page any option.
SelectBox(page, option, first) == option = first \/ view.page = page

\* show_intro_and_overview with a summary that sorts the selected column of
\* the shared frame in place.
ShowIntroSortingInPlace(region_selection) ==
    /\ SelectBox("Introduction & Statistics", region_selection, RegionList[1])
    /\ view' = show_metrics(data, region_selection)
    /\ data' = [data EXCEPT !.Global_Sales = Sort(data.Global_Sales)]

\* Page "Introduction & Statistics": the overview, then show_metrics on the
\* region of the select box.
show_intro_and_overview(region_selection) ==
    /\ SelectBox("Introduction & Statistics", region_selection, RegionList[1])
    /\ view' = show_metrics(data, region_selection)
    /\ UNCHANGED data

(* ----------------- histogram_chart (src/app.py 304-377) ---------------- *)

MeanMedianInsight(mean_sales, median_sales) ==
    IF FGT(mean_sales, median_sales) THEN "positively skewed"
    ELSE IF FLT(mean_sales, median_sales) THEN "negatively skewed"
    ELSE "symmetrical"

HistogramSpread(var) == IF StdAbove1(var) THEN "high" ELSE "low"

HistogramSkew(skewness) ==
    IF FGT(skewness, Rat(0, 1)) THEN "positively skewed"
    ELSE IF FLT(skewness, Rat(0, 1)) THEN "negatively skewed"
    ELSE "no skew"

histogram_chart(d, selected_region) ==
    LET sales_data == dropna(Col(d, region_mapping[selected_region]))
    IN  [page         |-> "Histogram",
         region       |-> selected_region,
         error        |-> "none",
         sales_data   |-> sales_data,
         mean_sales   |-> Mean(sales_data),
         median_sales |-> Median(sales_data),
         var_sales    |-> Var(sales_data),
         skewness     |-> Skew(sales_data),
         shape        |-> MeanMedianInsight(Mean(sales_data), Median(sales_data)),
         spread       |-> HistogramSpread(Var(sales_data)),
         skew         |-> HistogramSkew(Skew(sales_data))]

HistogramPage(selected_region) ==
    /\ SelectBox("Histogram", selected_region, RegionList[1])
    /\ view' = histogram_chart(data, selected_region)
    /\ UNCHANGED data

(* ------------------ box_plot_chart (src/app.py 381-461) ---------------- *)

\* One pass of the loop over the selected regions.
BoxInsight(d, region) ==
    LET region_sales == dropna(Col(d, region_mapping[region]))
        iqr_sales    == FSub(Quantile(region_sales, 75), Quantile(region_sales, 25))
        lower        == FSub(Quantile(region_sales, 25), FMul(Rat(3, 2), iqr_sales))
        upper        == FAdd(Quantile(region_sales, 75), FMul(Rat(3, 2), iqr_sales))
    IN  [region_sales |-> region_sales,
         median_sales |-> Median(region_sales),
         iqr_sales    |-> iqr_sales,
         min_sales    |-> Min(region_sales),
         max_sales    |-> Max(region_sales),
         lower        |-> lower,
         upper        |-> upper,
         outliers     |-> Len(Outside(region_sales, lower, upper)),
         spread       |-> IF FGT(iqr_sales, Rat(1, 1)) THEN "wide" ELSE "narrow"]

box_plot_chart(d, selected_regions) ==
    [page     |-> "Box Plot",
     regions  |-> selected_regions,
     error    |-> "none",
     insights |-> [r \in selected_regions |-> BoxInsight(d, r)]]

\* The multiselect: its default on the run that opens the page; on a later
\* run of the page one region added or removed, or the selection cleared.
MultiSelect(selected_regions) ==
    \/ selected_regions = {"Global Sales", "NA Sales", "EU Sales"}
    \/ /\ view.page = "Box Plot"
       /\ \/ selected_regions = {}
          \/ \E r \in Regions : \/ selected_regions = view.regions \cup {r}
                                 \/ selected_regions = view.regions \ {r}

BoxPlotPage(selected_regions) ==
    /\ MultiSelect(selected_regions)
    /\ view' = box_plot_chart(data, selected_regions)
    /\ UNCHANGED data

(* ------------------- scatter_chart (src/app.py 466-531) ---------------- *)

RECURSIVE SumProd(_, _)
SumProd(x, y) ==
    IF x = <<>> THEN 0 ELSE Head(x) * Head(y) + SumProd(Tail(x), Tail(y))

IsConstant(x) == \A i \in 1 .. Len(x) : x[i] = x[1]

\* A correlation coefficient: the real num / sqrt(den2), den2 > 0, or NaN.
Coefficient(num, den2) == [nan |-> FALSE, num |-> num, den2 |-> den2]

NaNCoefficient == [nan |-> TRUE, num |-> 0, den2 |-> 1]

\* scipy.stats.pearsonr(x, y) on two arrays of one length n >= 2: NaN when
\* an array holds a NaN or is constant, else
\* (n Sxy - Sx Sy) / sqrt((n Sxx - Sx^2) (n Syy - Sy^2)).
pearsonr(x, y) ==
    LET n == Len(x)
    IN  IF HasNull(x) \/ HasNull(y) \/ IsConstant(x) \/ IsConstant(y)
        THEN NaNCoefficient
        ELSE Coefficient(n * SumProd(x, y) - Sum(x) * Sum(y),
                         (n * SumSq(x) - Sum(x) * Sum(x))
                         * (n * SumSq(y) - Sum(y) * Sum(y)))

\* Exceeds on the absolute value of the coefficient.
AbsExceeds(correlation, p, q) ==
    /\ ~correlation.nan
    /\ q * q * correlation.num * correlation.num > p * p * correlation.den2

\* 'correlation > p / q' for a threshold p / q > 0.
Exceeds(correlation, p, q) ==
    /\ ~correlation.nan
    /\ correlation.num > 0
    /\ q * q * correlation.num * correlation.num > p * p * correlation.den2

\* The if / elif chain on the coefficient (lines 497-531).
CorrelationStrength(correlation) ==
    IF Exceeds(correlation, 3, 4) THEN "strong"
    ELSE IF Exceeds(correlation, 1, 2) THEN "moderate"
    ELSE IF Exceeds(correlation, 3, 10) THEN "weak"
    ELSE "little to no correlation"

ScatterInsight(region_x, region_y, x_data, y_data, correlation) ==
    [page        |-> "Sales Comparison",
     region_x    |-> region_x,
     region_y    |-> region_y,
     error       |-> "none",
     x_data      |-> x_data,
     y_data      |-> y_data,
     correlation |-> correlation,
     strength    |-> CorrelationStrength(correlation)]

scatter_chart(d, region_x, region_y) ==
    LET x_data == Col(d, region_mapping[region_x])
        y_data == Col(d, region_mapping[region_y])
    IN  IF Len(x_data) # Len(y_data) \/ Len(x_data) < 2
        THEN [page     |-> "Sales Comparison",
              region_x |-> region_x,
              region_y |-> region_y,
              error    |-> "ValueError",
              x_data   |-> x_data,
              y_data   |-> y_data]
        ELSE ScatterInsight(region_x, region_y, x_data, y_data,
                            pearsonr(x_data, y_data))

\* remaining_regions without the removal of the X region.
AllRegionsRemain(region_x) == RegionList

\* The Y select box offers the regions other than the X region.
remaining_regions(region_x) == SelectSeq(RegionList, LAMBDA region : region # region_x)

\* The X box is a select box of the page; the Y box holds the first of its
\* options when the page opens or the X region changes (its options change
\* with it), else any of them.
ScatterPage(region_x, region_y) ==
    /\ SelectBox("Sales Comparison", region_x, RegionList[1])
    /\ region_y \in Range(remaining_regions(region_x))
    /\ \/ region_y = remaining_regions(region_x)[1]
       \/ view.page = "Sales Comparison" /\ view.region_x = region_x
    /\ view' = scatter_chart(data, region_x, region_y)
    /\ UNCHANGED data

(* -------------- sales_over_time_chart (src/app.py 175-225) ------------- *)

\* data[['Year', column]].dropna(): the rows with both cells present, in
\* row order, as <<year, sales>> pairs.
FilteredRows(d, column) ==
    LET idx == SelectSeq([i \in 1 .. Len(d.Year) |-> i],
                         LAMBDA i : ~isnull(d.Year[i]) /\ ~isnull(Col(d, column)[i]))
    IN  [k \in 1 .. Len(idx) |-> <<d.Year[idx[k]], Col(d, column)[idx[k]]>>]

\* The spacing of the floats around the magnitude m.
RECURSIVE Ulp(_)
Ulp(m) == IF m < 2 ^ MantissaBits THEN 1 ELSE 2 * Ulp(m \div 2)

\* The float nearest to the integer x, ties to the even significand.
Round(x) ==
    LET m  == Abs(x)
        u  == Ulp(m)
        q  == m \div u
        r  == m % u
        up == 2 * r > u \/ (2 * r = u /\ q % 2 = 1)
        v  == IF up THEN (q + 1) * u ELSE q * u
    IN  IF x < 0 THEN 0 - v ELSE v

\* The float sum of the floats of s, added to acc from left to right.
RECURSIVE FloatSum(_, _)
FloatSum(acc, s) ==
    IF s = <<>> THEN acc ELSE FloatSum(Round(acc + Head(s)), Tail(s))

\* Diff with the subtraction turned around.
DiffReversed(s) == [i \in 1 .. Len(s) - 1 |-> Round(s[i] - s[i + 1])]

\* Series.diff() without its leading NaN: each difference is rounded.
Diff(s) == [i \in 1 .. Len(s) - 1 |-> Round(s[i + 1] - s[i])]

\* Series.diff().mean(): the leading NaN is skipped; NaN when no
\* difference is left.
\* The division by the count keeps the sign of the sum.
DiffMean(s) == IF Len(s) < 2 THEN NaN ELSE Rat(FloatSum(0, Diff(s)), Len(s) - 1)

\* TrendInsight with 'sales_trend >= 0' as its first test.
TrendInsightNonNegative(sales_trend) ==
    IF FLE(Rat(0, 1), sales_trend) THEN "increasing trend"
    ELSE IF FLT(sales_trend, Rat(0, 1)) THEN "decreasing trend"
    ELSE "relatively stable"

TrendInsight(sales_trend) ==
    IF FGT(sales_trend, Rat(0, 1)) THEN "increasing trend"
    ELSE IF FLT(sales_trend, Rat(0, 1)) THEN "decreasing trend"
    ELSE "relatively stable"

\* YearMissing without the test for a Year column that is entirely null.
YearColumnAbsent(d) == ~d.hasYear

YearMissing(d) == ~d.hasYear \/ \A i \in 1 .. Len(d.Year) : isnull(d.Year[i])

sales_over_time_chart(d, selected_region) ==
    LET filtered_data == FilteredRows(d, region_mapping[selected_region])
        sales         == [k \in 1 .. Len(filtered_data) |-> filtered_data[k][2]]
    IN  IF YearMissing(d)
        THEN [page    |-> "Sales Over Time",
              region  |-> selected_region,
              error   |-> "none",
              warning |-> TRUE]
        ELSE [page          |-> "Sales Over Time",
              region        |-> selected_region,
              error         |-> "none",
              warning       |-> FALSE,
              filtered_data |-> filtered_data,
              sales         |-> sales,
              sales_trend   |-> DiffMean(sales),
              trend         |-> TrendInsight(DiffMean(sales))]

SalesOverTimePage(selected_region) ==
    /\ SelectBox("Sales Over Time", selected_region, RegionList[1])
    /\ view' = sales_over_time_chart(data, selected_region)
    /\ UNCHANGED data

(* ---------------- the pages that compute no statistic ------------------ *)

\* Page "Sales by Platform": per-platform totals of the selected region.
pie_chart(region_selection) ==
    /\ SelectBox("Sales by Platform", region_selection, RegionList[1])
    /\ view' = [page |-> "Sales by Platform", region |-> region_selection,
                error |-> "none"]
    /\ UNCHANGED data

\* Page "Sales by Genre": per-genre totals, no selection.
regional_sales_by_genre_chart ==
    /\ view' = [page |-> "Sales by Genre", error |-> "none"]
    /\ UNCHANGED data

\* Page "Conclusion": static text.
show_conclusion ==
    /\ view' = [page |-> "Conclusion", error |-> "none"]
    /\ UNCHANGED data

(* ---------------------------- specification --------------------------- *)

\* The script's first run: the table is loaded, the menu stands on its
\* default page and the select box on its first option.
Init ==
    /\ data \in Tables
    /\ view = show_metrics(data, "Global Sales")

\* One script run: the page of the menu selection, with its widget values.
Next ==
    \/ \E r \in Regions : show_intro_and_overview(r)
    \/ \E r \in Regions : pie_chart(r)
    \/ \E x \in Regions, y \in Regions : ScatterPage(x, y)
    \/ \E r \in Regions : SalesOverTimePage(r)
    \/ \E r \in Regions : HistogramPage(r)
    \/ \E S \in SUBSET Regions : BoxPlotPage(S)
    \/ regional_sales_by_genre_chart
    \/ show_conclusion

Spec == Init /\ [][Next]_vars

(* ---------- the coefficient classification on its own inputs ----------- *)

\* A coefficient handed to the classification of scatter_chart.
InitStrength ==
    /\ data = Table(TRUE, <<>>, <<>>, <<>>)
    /\ \E k \in (0 - CoefficientSteps) .. CoefficientSteps :
          view = [page        |-> "pearsonr",
                  error       |-> "none",
                  correlation |-> Coefficient(k, CoefficientSteps * CoefficientSteps)]

ClassifyCorrelation ==
    /\ view.page = "pearsonr"
    /\ view' = [page        |-> "classified",
                error       |-> "none",
                correlation |-> view.correlation,
                strength    |-> CorrelationStrength(view.correlation)]
    /\ UNCHANGED data

NextStrength == ClassifyCorrelation

SpecStrength == InitStrength /\ [][NextStrength]_vars

(* ------------------------------- claims -------------------------------- *)

Zero == Rat(0, 1)

MetricsShown == view.page = "Introduction & Statistics" /\ view.error = "none"

\* C1: for a non-empty series of non-negative values (no missing cell) the
\* summary of show_metrics has min <= P25 <= median = P50 <= P75 <= max and
\* range = max - min >= 0.
SummaryOrdered ==
    (MetricsShown /\ ~HasNull(view.sales_data)) =>
        /\ FLE(view.min_sales, view.percentiles[1])
        /\ FLE(view.percentiles[1], view.median_sales)
        /\ FEQ(view.median_sales, view.percentiles[2])
        /\ FLE(view.median_sales, view.percentiles[3])
        /\ FLE(view.percentiles[3], view.max_sales)
        /\ FEQ(FAdd(view.range_sales, view.min_sales), view.max_sales)
        /\ FLE(Zero, view.range_sales)

\* C1 witness: a summary of three values whose five order statistics are
\* strictly increasing.
SummaryOrderedWitness ==
    /\ MetricsShown
    /\ ~HasNull(view.sales_data)
    /\ Len(view.sales_data) = 3
    /\ FLT(view.min_sales, view.percentiles[1])
    /\ FLT(view.percentiles[1], view.median_sales)
    /\ FLT(view.median_sales, view.percentiles[3])
    /\ FLT(view.percentiles[3], view.max_sales)

\* The values of s strictly outside [lower, upper], each as often as in s.
ExactlyOutside(outliers, s, lower, upper) ==
    \A v \in Cells :
        Count(outliers, v) =
            IF ~isnull(v) /\ (FLT(Rat(v, 1), lower) \/ FGT(Rat(v, 1), upper))
            THEN Count(s, v) ELSE 0

\* C2: for every series summarised by show_metrics, IQR = P75 - P25 >= 0
\* and the outliers are exactly the values strictly outside the fences
\* P25 - 1.5 IQR and P75 + 1.5 IQR.
IqrAndOutliers ==
    MetricsShown =>
        /\ FEQ(view.IQR, FSub(view.percentiles[3], view.percentiles[1]))
        /\ FLE(Zero, view.IQR)
        /\ ExactlyOutside(view.outliers, view.sales_data,
                          FSub(view.percentiles[1], FMul(Rat(3, 2), view.IQR)),
                          FAdd(view.percentiles[3], FMul(Rat(3, 2), view.IQR)))

\* C3: the strength of a coefficient r = k / CoefficientSteps is strong if
\* r > 0.75, else moderate if r > 0.5, else weak if r > 0.3, else little to
\* none; so 0.75, 0.5 and 0.3 fall in the lower class and every negative r
\* is little to none.
StrengthBySignedThresholds ==
    view.page = "classified" =>
        LET k == view.correlation.num
            n == CoefficientSteps
        IN  /\ 4 * k > 3 * n => view.strength = "strong"
            /\ (4 * k <= 3 * n /\ 2 * k > n) => view.strength = "moderate"
            /\ (2 * k <= n /\ 10 * k > 3 * n) => view.strength = "weak"
            /\ 10 * k <= 3 * n => view.strength = "little to no correlation"
            /\ k < 0 => view.strength = "little to no correlation"

\* C3 witness: r = -0.9 classified as little to no correlation.
StrengthWitness ==
    /\ view.page = "classified"
    /\ 10 * view.correlation.num = (0 - 9) * CoefficientSteps
    /\ view.strength = "little to no correlation"

\* C4: show_metrics on a region without a value fails with EmptyInputError.
EmptyInputTyped ==
    (/\ view.page = "Introduction & Statistics"
     /\ dropna(Col(data, region_mapping[view.region])) = <<>>)
        => view.error = "EmptyInputError"

\* C5: scatter_chart rejects series of unequal length with
\* LengthMismatchError, and a coefficient is computed only from series of
\* equal length with the missing cells dropped.
CorrelationInputsAligned ==
    view.page = "Sales Comparison" =>
        /\ Len(view.x_data) # Len(view.y_data) => view.error = "LengthMismatchError"
        /\ view.error = "none" =>
              /\ Len(view.x_data) = Len(view.y_data)
              /\ ~HasNull(view.x_data)
              /\ ~HasNull(view.y_data)

\* 'the standard deviation of the values of s exceeds 1', on the sums.
StdExceeds1(s) ==
    LET x == dropna(s)
        n == Len(x)
    IN  n >= 2 /\ n * SumSq(x) - Sum(x) * Sum(x) > n * (n - 1)

\* C6: the spread is wide ("high") exactly when std > 1.0 and consistent
\* ("low") otherwise, and the summary page and the histogram page give the
\* same label for the same region.
SpreadByThreshold ==
    /\ MetricsShown =>
          /\ view.spread = (IF StdExceeds1(view.sales_data) THEN "Wide" ELSE "Consistent")
          /\ view.spread = "Wide"
                <=> histogram_chart(data, view.region).spread = "high"
    /\ view.page = "Histogram" =>
          /\ view.spread = (IF StdExceeds1(view.sales_data) THEN "high" ELSE "low")
          /\ show_metrics(data, view.region).error = "none" =>
                (view.spread = "high"
                    <=> show_metrics(data, view.region).spread = "Wide")

\* C6 witness: a summary whose standard deviation is exactly 1, labelled
\* consistent.
SpreadWitness ==
    /\ MetricsShown
    /\ FEQ(view.var_sales, Rat(1, 1))
    /\ view.spread = "Consistent"

IsConstantSeries(s) == Len(s) >= 2 /\ \A i \in 1 .. Len(s) : s[i] = s[1]

TrendShown == view.page = "Sales Over Time" /\ ~view.warning

\* C7: the mean first difference is classified increasing if > 0,
\* decreasing if < 0 and stable if = 0; a constant series of two or more
\* values has mean difference 0 and is stable; one of the three labels is
\* given.
TrendBySign ==
    TrendShown =>
        /\ view.trend \in {"increasing trend", "decreasing trend", "relatively stable"}
        /\ Len(view.sales) >= 2 =>
              FEQ(FMul(view.sales_trend, Rat(Len(view.sales) - 1, 1)),
                  Rat(Sum(Diff(view.sales)), 1))
        /\ FGT(view.sales_trend, Zero) => view.trend = "increasing trend"
        /\ FLT(view.sales_trend, Zero) => view.trend = "decreasing trend"
        /\ FEQ(view.sales_trend, Zero) => view.trend = "relatively stable"
        /\ IsConstantSeries(view.sales) =>
              FEQ(view.sales_trend, Zero) /\ view.trend = "relatively stable"

\* C7 witness: a constant series of three values, reported stable.
TrendWitness ==
    /\ TrendShown
    /\ IsConstantSeries(view.sales)
    /\ Len(view.sales) = 3
    /\ view.trend = "relatively stable"

\* C8: on the summary page and on the histogram page the skew label is
\* positive exactly when skew > 0, negative exactly when skew < 0 and
\* symmetric exactly when skew is 0; both pages give the same class.
SkewBySign ==
    /\ MetricsShown =>
          /\ view.skew = "positively skewed" <=> FGT(view.skewness, Zero)
          /\ view.skew = "negatively skewed" <=> FLT(view.skewness, Zero)
          /\ view.skew = "symmetrically distributed" <=> FEQ(view.skewness, Zero)
          /\ view.skew = "symmetrically distributed"
                <=> histogram_chart(data, view.region).skew = "no skew"
    /\ view.page = "Histogram" =>
          /\ view.skew = "positively skewed" <=> FGT(view.skewness, Zero)
          /\ view.skew = "negatively skewed" <=> FLT(view.skewness, Zero)
          /\ view.skew = "no skew" <=> FEQ(view.skewness, Zero)

\* The summary and one box-plot insight agree on the IQR, on both fences and
\* on the number of outliers.
SameTukey(m, b) ==
    /\ FEQ(m.IQR, b.iqr_sales)
    /\ FEQ(m.lower_bound, b.lower)
    /\ FEQ(m.upper_bound, b.upper)
    /\ Len(m.outliers) = b.outliers

\* C9: for one region, show_metrics and box_plot_chart produce the same
\* IQR, the same fences and the same number of outliers.
TukeySameAtCallSites ==
    /\ MetricsShown => SameTukey(view, BoxInsight(data, view.region))
    /\ view.page = "Box Plot" =>
          \A r \in view.regions :
              show_metrics(data, r).error = "none" =>
                  SameTukey(show_metrics(data, r), view.insights[r])

\* C10: no statistic is computed from a series that holds a missing cell.
NullsDroppedFirst ==
    /\ view.page \in {"Introduction & Statistics", "Histogram"} =>
          ~HasNull(view.sales_data)
    /\ view.page = "Box Plot" =>
          \A r \in view.regions : ~HasNull(view.insights[r].region_sales)
    /\ view.page = "Sales Comparison" =>
          ~HasNull(view.x_data) /\ ~HasNull(view.y_data)
    /\ TrendShown => ~HasNull(view.sales)

\* C11: the mode of the summary occurs at least as often as every value of
\* the series, and no smaller value occurs as often.
ModeSmallestMostFrequent ==
    MetricsShown =>
        LET x == dropna(view.sales_data)
        IN  /\ view.mode_sales \in Range(x)
            /\ \A w \in Range(x) :
                  /\ Count(x, view.mode_sales) >= Count(x, w)
                  /\ Count(x, w) = Count(x, view.mode_sales) => view.mode_sales <= w

\* C11 witness: two values tie for the highest frequency, the larger comes
\* first in the column, and the smaller is reported.
ModeWitness ==
    /\ MetricsShown
    /\ \E w \in Range(dropna(view.sales_data)) :
          /\ w > view.mode_sales
          /\ Count(view.sales_data, w) = Count(view.sales_data, view.mode_sales)
          /\ dropna(view.sales_data)[1] = w

(* ------------- the summary on the series 1, 2, 3, 4, 5 ----------------- *)

RoundTripInput == <<1, 2, 3, 4, 5>>

\* The tables whose sales columns hold the values of RoundTripInput in some
\* row order.
RoundTripTables ==
    { Table(TRUE, AscYears(Len(RoundTripInput)),
            [i \in 1 .. Len(RoundTripInput) |-> RoundTripInput[p[i]]],
            Reverse([i \in 1 .. Len(RoundTripInput) |-> RoundTripInput[p[i]]]))
        : p \in Permutations(1 .. Len(RoundTripInput)) }

InitRoundTrip ==
    /\ data \in Tables \cup RoundTripTables
    /\ view = show_metrics(data, "Global Sales")

NextRoundTrip == \E r \in Regions : show_intro_and_overview(r)

SpecRoundTrip == InitRoundTrip /\ [][NextRoundTrip]_vars

\* The quartile j (1, 2 or 3) of the sorted values x by linear interpolation,
\* times 4: with (n - 1) j = 4 i + r, (4 - r) x[i + 1] + r x[i + 2].
FourTimesQuartile(x, j) ==
    LET k == (Len(x) - 1) * j
        i == k \div 4
        r == k % 4
    IN  IF r = 0 THEN 4 * x[i + 1] ELSE (4 - r) * x[i + 1] + r * x[i + 2]

\* C12: on a series without a missing cell the mean is the sum over the
\* count, the median the middle value (or the midpoint of the two middle
\* values) and the quartiles interpolate linearly between order statistics;
\* on 1, 2, 3, 4, 5 (in any row order) mean = 3, median = 3, P25 = 2,
\* P75 = 4, IQR = 2 and there is no outlier.
SummaryRoundTrip ==
    (MetricsShown /\ ~HasNull(view.sales_data)) =>
        LET x == Sort(view.sales_data)
            n == Len(x)
        IN  /\ FEQ(FMul(view.mean_sales, Rat(n, 1)), Rat(Sum(x), 1))
            /\ n % 2 = 1 => FEQ(view.median_sales, Rat(x[(n + 1) \div 2], 1))
            /\ n % 2 = 0 =>
                  FEQ(FMul(view.median_sales, Rat(2, 1)),
                      Rat(x[n \div 2] + x[n \div 2 + 1], 1))
            /\ \A j \in 1 .. 3 :
                  FEQ(FMul(view.percentiles[j], Rat(4, 1)),
                      Rat(FourTimesQuartile(x, j), 1))
            /\ x = RoundTripInput =>
                  /\ FEQ(view.mean_sales, Rat(3, 1))
                  /\ FEQ(view.median_sales, Rat(3, 1))
                  /\ FEQ(view.percentiles[1], Rat(2, 1))
                  /\ FEQ(view.percentiles[3], Rat(4, 1))
                  /\ FEQ(view.IQR, Rat(2, 1))
                  /\ view.outliers = <<>>

\* C12 witness: the summary of 1, 2, 3, 4, 5 given in another row order.
RoundTripWitness ==
    /\ MetricsShown
    /\ Sort(view.sales_data) = RoundTripInput
    /\ view.sales_data # RoundTripInput
    /\ FEQ(view.IQR, Rat(2, 1))
    /\ view.outliers = <<>>

\* What the page of v shows when it is computed from the frame d alone, with
\* the widget values of v.
Recomputed(d, v) ==
    CASE v.page = "Introduction & Statistics" -> show_metrics(d, v.region)
      [] v.page = "Histogram"        -> histogram_chart(d, v.region)
      [] v.page = "Box Plot"         -> box_plot_chart(d, v.regions)
      [] v.page = "Sales Comparison" -> scatter_chart(d, v.region_x, v.region_y)
      [] v.page = "Sales Over Time"  -> sales_over_time_chart(d, v.region)
      [] OTHER                       -> v

YearCells == {NULL} \cup (1 .. MaxYear)

\* Tables whose Year column is absent, or holds any years and gaps in any
\* row order.
YearTables ==
    UNION { { Table(h, IF h THEN y ELSE [i \in 1 .. n |-> NULL], c, Reverse(c))
                : h \in BOOLEAN, y \in [1 .. n -> YearCells], c \in Columns(n) }
            : n \in 0 .. MaxYearRows }

\* The sales figures up to 2 ^ MantissaBits + MaxExcess that are floats.
FloatCells == {v \in 0 .. 2 ^ MantissaBits + MaxExcess : Round(v) = v}

\* Tables with sales figures large enough for a difference to be rounded.
WideTables ==
    UNION { { Table(TRUE, AscYears(n), c, Reverse(c)) : c \in [1 .. n -> FloatCells] }
            : n \in 0 .. MaxRows }

InitTrend ==
    /\ data \in YearTables \cup WideTables
    /\ view = show_metrics(data, "Global Sales")

NextTrend == \E r \in Regions : SalesOverTimePage(r)

SpecTrend == InitTrend /\ [][NextTrend]_vars

\* C14: when the Year column is absent or entirely null,
\* sales_over_time_chart reports it and returns with no filtered rows, no
\* difference and no trend label.
YearAbsentReported ==
    (/\ view.page = "Sales Over Time"
     /\ ~data.hasYear \/ \A i \in 1 .. Len(data.Year) : data.Year[i] = NULL)
        => /\ view.warning
           /\ DOMAIN view = {"page", "region", "error", "warning"}

\* C14 witness: the chart asked for over a table with rows whose Year
\* column is entirely null.
YearAbsentWitness ==
    /\ view.page = "Sales Over Time"
    /\ data.hasYear
    /\ Len(data.Year) >= 1
    /\ \A i \in 1 .. Len(data.Year) : data.Year[i] = NULL
    /\ view.warning

\* C15: the sequence differenced by sales_over_time_chart is in ascending
\* year order with one value per year.
TrendInputByYear ==
    TrendShown =>
        \A k \in 1 .. Len(view.filtered_data) - 1 :
            view.filtered_data[k][1] < view.filtered_data[k + 1][1]

\* The subtractions of diff() and the additions of mean() on s all give
\* their exact result.
NothingRounded(s) ==
    /\ \A i \in 1 .. Len(s) - 1 : Round(s[i + 1] - s[i]) = s[i + 1] - s[i]
    /\ \A k \in 1 .. Len(s) : Round(s[k] - s[1]) = s[k] - s[1]

\* The label that the comparison of the last with the first value suggests.
LabelByEnds(s) ==
    IF s[Len(s)] > s[1] THEN "increasing trend"
    ELSE IF s[Len(s)] < s[1] THEN "decreasing trend"
    ELSE "relatively stable"

\* C16 as stated: the trend label of a series of two or more values is
\* decided by its last and first value alone, and a series of one value is
\* stable.
TrendByEndsAlways ==
    TrendShown =>
        /\ Len(view.sales) >= 2 => view.trend = LabelByEnds(view.sales)
        /\ Len(view.sales) = 1 => view.trend = "relatively stable"

\* C16 amended: when no subtraction and no addition of the computation is
\* rounded, the trend label of a series of two or more values is decided by
\* its last and first value alone; a series of at most one value is stable.
TrendByEndsWhenExact ==
    TrendShown =>
        /\ (Len(view.sales) >= 2 /\ NothingRounded(view.sales))
              => view.trend = LabelByEnds(view.sales)
        /\ Len(view.sales) <= 1 => view.trend = "relatively stable"

\* C16 witness: a series of three values that rises above its last value and
\* falls back, computed without rounding and labelled by its ends.
TrendByEndsWitness ==
    /\ TrendShown
    /\ Len(view.sales) = 3
    /\ NothingRounded(view.sales)
    /\ view.sales[2] > view.sales[3]
    /\ view.sales[3] > view.sales[1]
    /\ view.trend = "increasing trend"

\* C17: the two regions compared by scatter_chart are distinct keys of
\* region_mapping; no region is correlated with itself.
ComparedRegionsDistinct ==
    view.page = "Sales Comparison" =>
        /\ view.region_x \in DOMAIN region_mapping
        /\ view.region_y \in DOMAIN region_mapping
        /\ view.region_x # view.region_y
        /\ region_mapping[view.region_x] # region_mapping[view.region_y]

\* C17 witness: a comparison whose Y region is the first key of the mapping,
\* which the Y box offers only when another region is chosen for X.
ComparedRegionsWitness ==
    /\ view.page = "Sales Comparison"
    /\ view.region_x = "NA Sales"
    /\ view.region_y = "Global Sales"
    /\ view.error = "none"

====
